---- MODULE Spec2Model ----
(***************************************************************************)
(* Model of deploy.py: main() looks up the deployment target in the        *)
(* environment, obtains an OAuth2 access token, uploads the packaged       *)
(* extension and publishes it.  The three HTTP endpoints and the           *)
(* environment are the inputs; every answer an endpoint can give is drawn  *)
(* when the call is made and recorded, so that properties can be stated    *)
(* over what was answered and what was called.                             *)
(***************************************************************************)
EXTENDS Integers, Sequences, FiniteSets, TLC

VARIABLES
  environ,       \* os.environ: the set of variable names that are defined
  fileReadable,  \* whether open(file_path, 'rb') can succeed
  pc,            \* position of the single thread of control
  token,         \* main's local `token`
  calls,         \* the HTTP requests sent so far, in order
  tokenResp,     \* answer of the token endpoint (r in getToken)
  uploadResp,    \* answer of the upload endpoint (r in upload)
  publishResp,   \* answer of the publish endpoint (r in publish)
  fileOpen,      \* the handle f of upload's with-block is open
  error,         \* the exception that left main, if any
  failedIn,      \* the function that raised it
  exitCode       \* process exit status, NotExited while running

vars == <<environ, fileReadable, pc, token, calls, tokenResp, uploadResp,
          publishResp, fileOpen, error, failedIn, exitCode>>

----------------------------------------------------------------------------
(* Bounds and input domains *)

MaxStatusLen == 2

EnvVars == {"WEBSTORE_CLIENT_ID", "WEBSTORE_CLIENT_SECRET",
            "WEBSTORE_REFRESH_TOKEN", "EXTENSION_ID", "FILE_NAME",
            "PUBLISH_TARGET"}

\* HTTP status codes an endpoint may answer with: one or two of each class,
\* and the edges of the range raise_for_status reacts to.
HttpStatuses == {101, 200, 204, 304, 399, 400, 404, 500, 599, 600}

\* JSON scalar values, tagged with their type.
Str(s) == [t |-> "str", s |-> s]
None   == [t |-> "null", s |-> ""]
Num(s) == [t |-> "num", s |-> s]

\* Values the token endpoint may put in access_token.
TokenFieldValues == {None, Str(""), Num("0"), Str("X"), Str("Y")}

\* Values the upload endpoint may put in uploadState.
UploadStates == {Str("SUCCESS"), Str("FAILURE"), Str("IN_PROGRESS"), None}

\* Codes the publish endpoint may put in its status list.
StatusCodes == {"OK", "ITEM_NOT_FOUND", "NOT_AUTHORIZED"}

RECURSIVE SeqsUpTo(_, _)
SeqsUpTo(S, n) ==
  IF n = 0 THEN {<<>>}
  ELSE LET shorter == SeqsUpTo(S, n - 1)
       IN  shorter \cup {Append(q, x) : q \in {p \in shorter : Len(p) = n - 1}, x \in S}

StatusLists == SeqsUpTo(StatusCodes, MaxStatusLen)

\* A response body: text that is not JSON, JSON that is not an object, or a
\* JSON object given as its set of <<key, value>> members.
NotJson   == [kind |-> "text",   members |-> {}]
JsonArray == [kind |-> "array",  members |-> {}]
Object(m) == [kind |-> "object", members |-> m]

TokenBodies ==
  {NotJson, JsonArray, Object({})}
    \cup {Object({<<"access_token", v>>}) : v \in TokenFieldValues}

UploadBodies ==
  {NotJson, JsonArray, Object({})}
    \cup {Object({<<"uploadState", v>>}) : v \in UploadStates}

PublishBodies ==
  {NotJson, JsonArray, Object({})}
    \cup {Object({<<"status", l>>}) : l \in StatusLists}

NoResp       == [arrived |-> FALSE, status |-> 0, body |-> NotJson]
Resp(s, b)   == [arrived |-> TRUE, status |-> s, body |-> b]

NoError      == [type |-> "none", arg |-> ""]
Exc(ty, a)   == [type |-> ty, arg |-> a]

NotExited    == -1

----------------------------------------------------------------------------
(* Pure helpers *)

\* dict.get(key, default)
Get(body, key, default) ==
  IF \E m \in body.members : m[1] = key
  THEN (CHOOSE m \in body.members : m[1] = key)[2]
  ELSE default

\* variant: only a missing or null value counts as false (`token is None`)
TruthyNotNone(v) == v.t # "null"

\* Python truth value of a JSON scalar
Truthy(v) ==
  CASE v.t = "null" -> FALSE
    [] v.t = "str"  -> v.s # ""
    [] v.t = "num"  -> v.s # "0"
    [] OTHER        -> TRUE

\* variant: only server errors raise
RaiseForStatusServerOnly(status) == 500 <= status /\ status < 600

\* requests.Response.raise_for_status: raises for 4xx and 5xx
RaiseForStatus(status) == 400 <= status /\ status < 600

\* requests.Response.json: raises unless the body is JSON
JsonRaises(body) == body.kind = "text"

\* .get on the parsed body: raises unless it is a dict
GetRaises(body) == body.kind # "object"

\* variant: os.environ.get(name, ''), which never fails
LookupWithDefault(name) == TRUE

\* os.environ[name]
Lookup(name) == name \in environ

\* the first name of names that os.environ does not define, "" if none
RECURSIVE FirstMissing(_)
FirstMissing(names) ==
  IF names = <<>> THEN ""
  ELSE IF ~Lookup(Head(names)) THEN Head(names)
  ELSE FirstMissing(Tail(names))

\* variant: the format string is sent without the token substituted
DefaultHeadersLiteral(tok) ==
  [Authorization |-> "Bearer %s", xGoogApiVersion |-> "2"]

DefaultHeaders(tok) ==
  [Authorization |-> "Bearer " \o tok.s, xGoogApiVersion |-> "2"]

Request(endpoint, auth) == [endpoint |-> endpoint, auth |-> auth]

\* variant: the exception is swallowed at top level
ExitStatusSwallowed(raised) == 0

\* exit status of the interpreter: 1 when an exception leaves main
ExitStatus(raised) == IF raised THEN 1 ELSE 0

\* variant: f.close() as the last statement instead of a with-block
WithExitLeak(raised) == raised

\* state of the handle once control has left the with-block
WithExit(raised) == FALSE

\* variant: nothing is subtracted from the set of codes
PublishErrorsKeepOk(statuses) == {statuses[i] : i \in 1..Len(statuses)}

\* variant: one "OK" in the list hides the other codes
PublishErrorsAnyOk(statuses) ==
  IF \E i \in 1..Len(statuses) : statuses[i] = "OK"
  THEN {}
  ELSE {statuses[i] : i \in 1..Len(statuses)}

\* set(statuses) - frozenset(['OK'])
PublishErrors(statuses) == {statuses[i] : i \in 1..Len(statuses)} \ {"OK"}

\* variant: getToken also rejects a 4xx or 5xx status
TokenMissingOrHttpError(resp) ==
  RaiseForStatus(resp.status) \/ ~Truthy(Get(resp.body, "access_token", None))

\* getToken's check of the parsed body
TokenMissing(resp) == ~Truthy(Get(resp.body, "access_token", None))

\* variant: only an explicit "FAILURE" is rejected
UploadStateBadOnlyFailure(resp) ==
  Get(resp.body, "uploadState", None) = Str("FAILURE")

\* upload's check of the parsed body
UploadStateBad(resp) == Get(resp.body, "uploadState", None) # Str("SUCCESS")

----------------------------------------------------------------------------
(* State machine *)

Init ==
  /\ environ \in SUBSET EnvVars
  /\ fileReadable \in BOOLEAN
  /\ pc = "main"
  /\ token = None
  /\ calls = <<>>
  /\ tokenResp = NoResp
  /\ uploadResp = NoResp
  /\ publishResp = NoResp
  /\ fileOpen = FALSE
  /\ error = NoError
  /\ failedIn = "none"
  /\ exitCode = NotExited

\* an exception raised in function fn leaves main uncaught
Raise(exc, fn) ==
  /\ pc' = "failed"
  /\ error' = exc
  /\ failedIn' = fn
  /\ exitCode' = ExitStatus(TRUE)

\* main, the three lookups
MainEnv ==
  /\ pc = "main"
  /\ LET missing == FirstMissing(<<"EXTENSION_ID", "FILE_NAME", "PUBLISH_TARGET">>)
     IN  IF missing # ""
         THEN Raise(Exc("KeyError", missing), "main")
         ELSE /\ pc' = "getToken"
              /\ UNCHANGED <<error, failedIn, exitCode>>
  /\ UNCHANGED <<environ, fileReadable, token, calls, tokenResp, uploadResp,
                 publishResp, fileOpen>>

\* getToken, building the form data: the argument of requests.post is
\* evaluated before the call
GetTokenData ==
  /\ pc = "getToken"
  /\ LET missing == FirstMissing(<<"WEBSTORE_CLIENT_ID", "WEBSTORE_CLIENT_SECRET",
                                   "WEBSTORE_REFRESH_TOKEN">>)
     IN  IF missing # ""
         THEN Raise(Exc("KeyError", missing), "getToken")
         ELSE /\ pc' = "getToken_post"
              /\ UNCHANGED <<error, failedIn, exitCode>>
  /\ UNCHANGED <<environ, fileReadable, token, calls, tokenResp, uploadResp,
                 publishResp, fileOpen>>

\* getToken, requests.post: the request is sent; the transport fails or an
\* answer arrives
GetTokenPost ==
  /\ pc = "getToken_post"
  /\ calls' = Append(calls, Request("token", ""))
  /\ \/ /\ Raise(Exc("RequestException", ""), "getToken")
        /\ UNCHANGED tokenResp
     \/ \E s \in HttpStatuses, b \in TokenBodies :
          /\ tokenResp' = Resp(s, b)
          /\ pc' = "getToken_parse"
          /\ UNCHANGED <<error, failedIn, exitCode>>
  /\ UNCHANGED <<environ, fileReadable, token, uploadResp, publishResp, fileOpen>>

\* getToken, reading access_token from the answer
GetTokenParse ==
  /\ pc = "getToken_parse"
  /\ IF JsonRaises(tokenResp.body)
     THEN Raise(Exc("JSONDecodeError", ""), "getToken") /\ UNCHANGED token
     ELSE IF GetRaises(tokenResp.body)
     THEN Raise(Exc("AttributeError", ""), "getToken") /\ UNCHANGED token
     ELSE IF TokenMissing(tokenResp)
     THEN Raise(Exc("RuntimeError", "Failed to get access token"), "getToken")
          /\ UNCHANGED token
     ELSE /\ token' = Get(tokenResp.body, "access_token", None)
          /\ pc' = "upload"
          /\ UNCHANGED <<error, failedIn, exitCode>>
  /\ UNCHANGED <<environ, fileReadable, calls, tokenResp, uploadResp,
                 publishResp, fileOpen>>

\* upload, entering the with-block: open(file_path, 'rb')
UploadOpen ==
  /\ pc = "upload"
  /\ IF fileReadable
     THEN /\ fileOpen' = TRUE
          /\ pc' = "upload_put"
          /\ UNCHANGED <<error, failedIn, exitCode>>
     ELSE /\ Raise(Exc("OSError", ""), "upload")
          /\ UNCHANGED fileOpen
  /\ UNCHANGED <<environ, fileReadable, token, calls, tokenResp, uploadResp,
                 publishResp>>

\* upload, requests.put inside the with-block
UploadPut ==
  /\ pc = "upload_put"
  /\ calls' = Append(calls, Request("upload", DefaultHeaders(token).Authorization))
  /\ \/ /\ Raise(Exc("RequestException", ""), "upload")
        /\ fileOpen' = WithExit(TRUE)
        /\ UNCHANGED uploadResp
     \/ \E s \in HttpStatuses, b \in UploadBodies :
          /\ uploadResp' = Resp(s, b)
          /\ pc' = "upload_check"
          /\ UNCHANGED <<error, failedIn, exitCode, fileOpen>>
  /\ UNCHANGED <<environ, fileReadable, token, tokenResp, publishResp>>

\* upload, the checks of the answer and the end of the with-block
UploadCheck ==
  /\ pc = "upload_check"
  /\ IF RaiseForStatus(uploadResp.status)
     THEN Raise(Exc("HTTPError", ""), "upload") /\ fileOpen' = WithExit(TRUE)
     ELSE IF JsonRaises(uploadResp.body)
     THEN Raise(Exc("JSONDecodeError", ""), "upload") /\ fileOpen' = WithExit(TRUE)
     ELSE IF GetRaises(uploadResp.body)
     THEN Raise(Exc("AttributeError", ""), "upload") /\ fileOpen' = WithExit(TRUE)
     ELSE IF UploadStateBad(uploadResp)
     THEN Raise(Exc("RuntimeError", "Upload failed"), "upload")
          /\ fileOpen' = WithExit(TRUE)
     ELSE /\ fileOpen' = WithExit(FALSE)
          /\ pc' = "publish"
          /\ UNCHANGED <<error, failedIn, exitCode>>
  /\ UNCHANGED <<environ, fileReadable, token, calls, tokenResp, uploadResp,
                 publishResp>>

\* publish, requests.post
PublishPost ==
  /\ pc = "publish"
  /\ calls' = Append(calls, Request("publish", DefaultHeaders(token).Authorization))
  /\ \/ /\ Raise(Exc("RequestException", ""), "publish")
        /\ UNCHANGED publishResp
     \/ \E s \in HttpStatuses, b \in PublishBodies :
          /\ publishResp' = Resp(s, b)
          /\ pc' = "publish_check"
          /\ UNCHANGED <<error, failedIn, exitCode>>
  /\ UNCHANGED <<environ, fileReadable, token, tokenResp, uploadResp, fileOpen>>

\* publish, the checks of the answer; main returns and the process exits
PublishCheck ==
  /\ pc = "publish_check"
  /\ IF RaiseForStatus(publishResp.status)
     THEN Raise(Exc("HTTPError", ""), "publish")
     ELSE IF JsonRaises(publishResp.body)
     THEN Raise(Exc("JSONDecodeError", ""), "publish")
     ELSE IF GetRaises(publishResp.body)
     THEN Raise(Exc("AttributeError", ""), "publish")
     ELSE IF PublishErrors(Get(publishResp.body, "status", <<>>)) # {}
     THEN Raise(Exc("RuntimeError", "Publish failed"), "publish")
     ELSE /\ pc' = "done"
          /\ exitCode' = ExitStatus(FALSE)
          /\ UNCHANGED <<error, failedIn>>
  /\ UNCHANGED <<environ, fileReadable, token, calls, tokenResp, uploadResp,
                 publishResp, fileOpen>>

Next ==
  \/ MainEnv
  \/ GetTokenData
  \/ GetTokenPost
  \/ GetTokenParse
  \/ UploadOpen
  \/ UploadPut
  \/ UploadCheck
  \/ PublishPost
  \/ PublishCheck

Spec == Init /\ [][Next]_vars

\* Every blocking call returns or raises, so the single thread always takes
\* its next step.
FairSpec == Spec /\ WF_vars(Next)

----------------------------------------------------------------------------
(* Vocabulary of the properties, over the inputs and the recorded traffic *)

Is2xx(status)     == 200 <= status /\ status <= 299
IsHttpError(status) == 400 <= status /\ status <= 599

Endpoints == [i \in 1..Len(calls) |-> calls[i].endpoint]
Called(e) == \E i \in 1..Len(calls) : calls[i].endpoint = e
TimesCalled(e) == Cardinality({i \in 1..Len(calls) : calls[i].endpoint = e})

Exited == exitCode # NotExited

\* the access_token values that are present and non-empty
NonEmptyTokens == {Str("X"), Str("Y")}

\* the token answer carries a present, non-empty access_token
HasToken(resp) ==
  /\ resp.arrived
  /\ resp.body.kind = "object"
  /\ \E v \in NonEmptyTokens : <<"access_token", v>> \in resp.body.members

\* the parsed token answer has no access_token, or an empty one (null, "", 0)
LacksToken(resp) ==
  /\ resp.arrived
  /\ resp.body.kind = "object"
  /\ \A v \in NonEmptyTokens : <<"access_token", v>> \notin resp.body.members

TokenOf(resp) == CHOOSE v \in NonEmptyTokens : <<"access_token", v>> \in resp.body.members

\* the upload answer's uploadState is "SUCCESS"
StateIsSuccess(resp) ==
  /\ resp.body.kind = "object"
  /\ <<"uploadState", Str("SUCCESS")>> \in resp.body.members

\* the codes of the publish answer's status list other than "OK"
NonOkCodes(resp) ==
  {c \in StatusCodes \ {"OK"} :
     \E m \in resp.body.members :
        m[1] = "status" /\ \E i \in 1..Len(m[2]) : m[2][i] = c}

\* upload has been left, one way or the other, after an answer arrived
UploadAnswered == uploadResp.arrived /\ pc # "upload_check"
UploadReturned == UploadAnswered /\ failedIn # "upload"

\* publish has been left, one way or the other, after an answer arrived
PublishAnswered == publishResp.arrived /\ pc # "publish_check"
PublishReturned == PublishAnswered /\ failedIn # "publish"

UploadError  == Exc("RuntimeError", "Upload failed")
PublishError == Exc("RuntimeError", "Publish failed")
AuthError    == Exc("RuntimeError", "Failed to get access token")

----------------------------------------------------------------------------
(* C1 *)

----------------------------------------------------------------------------
(* C2 *)

AllAnswerSuccessfully ==
  /\ HasToken(tokenResp) /\ Is2xx(tokenResp.status)
  /\ uploadResp.arrived /\ Is2xx(uploadResp.status) /\ StateIsSuccess(uploadResp)
  /\ publishResp.arrived /\ Is2xx(publishResp.status)
  /\ publishResp.body.kind = "object" /\ NonOkCodes(publishResp) = {}

\* C2: when all three endpoints answer successfully, main has made exactly
\* one call to each, in the order token, upload, publish, makes no further
\* call, and the process exits with code 0.
C2_SuccessfulRun ==
  /\ [](AllAnswerSuccessfully =>
          /\ Endpoints = <<"token", "upload", "publish">>
          /\ exitCode \in {NotExited, 0})
  /\ (AllAnswerSuccessfully ~> (exitCode = 0 /\ pc = "done"))

C2_Witness ==
  /\ AllAnswerSuccessfully
  /\ pc = "done"
  /\ exitCode = 0
  /\ Endpoints = <<"token", "upload", "publish">>
  /\ <<"status", <<"OK">> >> \in publishResp.body.members

----------------------------------------------------------------------------
(* C3 *)

\* C3: if any of the six required environment variables is missing, no
\* network call is ever made and the process fails with a KeyError naming a
\* missing variable.
C3_MissingVariableFailsBeforeNetwork ==
  /\ [](\A v \in EnvVars :
          v \notin environ =>
            /\ calls = <<>>
            /\ ~tokenResp.arrived /\ ~uploadResp.arrived /\ ~publishResp.arrived
            /\ pc \in {"main", "getToken", "failed"}
            /\ pc = "failed" =>
                 /\ error.type = "KeyError"
                 /\ error.arg \in EnvVars \ environ
                 /\ exitCode = 1)
  /\ \A v \in EnvVars :
       (v \notin environ) ~> (pc = "failed" /\ error.type = "KeyError")

C3_Witness ==
  /\ environ = EnvVars \ {"WEBSTORE_REFRESH_TOKEN"}
  /\ pc = "failed"
  /\ failedIn = "getToken"
  /\ error = Exc("KeyError", "WEBSTORE_REFRESH_TOKEN")
  /\ calls = <<>>

----------------------------------------------------------------------------
(* C4 *)

----------------------------------------------------------------------------
(* C5 *)

----------------------------------------------------------------------------
(* C6 *)

----------------------------------------------------------------------------
(* C7 *)

\* C7: the artifact handle is open only between open() and the end of the
\* with-block: it is closed once upload has been left, on success, on a
\* transport failure of the PUT, on an HTTP error status and on an
\* uploadState other than "SUCCESS"; it is never open when the publish call is
\* made or once the process has terminated.
C7_HandleClosed ==
  /\ fileOpen => pc \in {"upload_put", "upload_check"}
  /\ pc \in {"upload_put", "upload_check"} => fileOpen
  /\ Called("publish") => ~fileOpen
  /\ Exited => ~fileOpen

C7_Witness ==
  /\ fileReadable
  /\ Endpoints = <<"token", "upload">>
  /\ ~uploadResp.arrived
  /\ pc = "failed"
  /\ failedIn = "upload"
  /\ error.type = "RequestException"
  /\ ~fileOpen

----------------------------------------------------------------------------
(* C8 *)

\* C8: whatever the answers, each endpoint is called at most once, the token
\* call is the first call, and the Authorization header sent to upload and to
\* publish is "Bearer " followed by the access_token of the one token answer.
C8_NoRetrySameToken ==
  /\ \A e \in {"token", "upload", "publish"} : TimesCalled(e) <= 1
  /\ Len(calls) <= 3
  /\ \A i \in 1..Len(calls) :
       IF calls[i].endpoint = "token"
       THEN i = 1 /\ calls[i].auth = ""
       ELSE /\ HasToken(tokenResp)
            /\ calls[i].auth = "Bearer " \o TokenOf(tokenResp).s

C8_Witness ==
  /\ Endpoints = <<"token", "upload", "publish">>
  /\ HasToken(tokenResp)
  /\ TokenOf(tokenResp) = Str("Y")
  /\ calls[2].auth = "Bearer Y"
  /\ calls[3].auth = "Bearer Y"
  /\ pc = "failed"
  /\ failedIn = "publish"

----------------------------------------------------------------------------
(* C9 *)

TokenSucceeded ==
  environ = EnvVars /\ HasToken(tokenResp)

UploadSucceeded ==
  /\ fileReadable
  /\ uploadResp.arrived
  /\ ~IsHttpError(uploadResp.status)
  /\ StateIsSuccess(uploadResp)

PublishSucceeded ==
  /\ publishResp.arrived
  /\ ~IsHttpError(publishResp.status)
  /\ publishResp.body.kind = "object"
  /\ NonOkCodes(publishResp) = {}

----------------------------------------------------------------------------
(* C10 *)

\* the part of C10 about the token endpoint: whatever its status, an answer
\* with a non-empty access_token makes the run go on to upload with that
\* token, and getToken fails on an answer only when it carries no such token
C10_TokenIgnoresStatus ==
  /\ [](\A s \in HttpStatuses :
          (HasToken(tokenResp) /\ tokenResp.status = s /\ pc # "getToken_parse") =>
             /\ failedIn # "getToken"
             /\ token = TokenOf(tokenResp)
             /\ \A i \in 1..Len(calls) :
                  calls[i].endpoint = "upload" =>
                    calls[i].auth = "Bearer " \o TokenOf(tokenResp).s)
  /\ []((tokenResp.arrived /\ failedIn = "getToken") => ~HasToken(tokenResp))
  /\ \A s \in HttpStatuses :
       (HasToken(tokenResp) /\ tokenResp.status = s /\ fileReadable)
         ~> Called("upload")

====
